---- MODULE Spec2Model ----
(***************************************************************************)
(* The pose-tracking pipeline of myonites: the MediaPipePoseEstimator      *)
(* lifecycle (pose.web.ts), the camera service (camera.web.ts) and the     *)
(* frame loop controller (PosePrototypeScreen.tsx).                        *)
(*                                                                         *)
(* Handlers are record transformers over the record World of the program   *)
(* state, composed in the order of the statements of the code; an action   *)
(* is one run of a handler between two suspension points (await, event).   *)
(* ops is the list of the calls the last handler made, in order.           *)
(***************************************************************************)
EXTENDS Integers, Sequences, FiniteSets, TLC

VARIABLES
  mounted,            \* the screen component is mounted
  screenState,        \* useState<ScreenState>
  errorMessage,       \* useState<string>
  videoRef,           \* camera id of the held video element, or Null
  canvasRef,          \* TRUE when the ref holds the canvas element
  containerRef,       \* TRUE when the ref holds the container div
  estimatorRef,       \* estimator id, or Null
  stopCameraRef,      \* camera id whose stop closure is held, or Null
  animationFrameRef,  \* requestAnimationFrame handle, or Null
  pc,                 \* where the start sequence is suspended
  nSessions,          \* start sequences begun so far
  cam,                \* the camera streams, one per start sequence
  est,                \* the estimator instances
  scheduled,          \* handles of the frame callbacks the browser holds
  rafCount,           \* handles handed out so far
  ctxOk,              \* canvas.getContext("2d") returns a context
  ret,                \* what the last estimator call returned
  ops,                \* calls made by the last handler, in order
  act,                \* name of the last handler
  call,               \* the last estimator call: method, state before, frame
  stopped,            \* the user stopped a session and none has run since
  now,                \* the document's frame clock: the last frame timestamp
  detected,           \* what the engine's last detectForVideo returned
  poseResult,         \* what the last detectPose() returned when not null
  canvas,             \* the overlay's 2D context: size and the calls made on it
  drawArgs,           \* arguments of the last drawSkeleton() call
  authStore,          \* useAuthStore: session, isLoading, error
  authService,        \* the auth service: its auth state and what is in flight
  lastFrameTimeRef,   \* timestamp of the previous frame, in ms (a fraction)
  fpsRef,             \* the smoothed frame rate (a fraction)
  frameArg            \* timestamp argument of a frame callback run on its own

vars ==
  << mounted, screenState, errorMessage, videoRef, canvasRef, containerRef,
     estimatorRef, stopCameraRef, animationFrameRef, pc, nSessions, cam, est,
     scheduled, rafCount, ctxOk, ret, ops, act, call, stopped, now, detected,
     poseResult, canvas, drawArgs, authStore, authService, lastFrameTimeRef,
     fpsRef, frameArg >>

----------------------------------------------------------------------------
(* Bounds *)

MaxSessions ==
  2

MaxFrames ==
  3

MaxLoads ==
  2

MaxStops ==
  2

MaxClock ==
  3

Null ==
  0

Sessions ==
  1 .. MaxSessions

\* The estimator instance driven directly by the calls of EstSpec.
Probe ==
  1

EstimatorStates ==
  {"uninitialized", "loading", "ready", "disposed"}

\* getUserMedia rejections (camera.web.ts), and a thrown value that is no Error
CameraErrors ==
  {"NotAllowedError", "NotFoundError", "NotReadableError", "NonError"}

\* What PoseLandmarker.detectForVideo can do: throw, or return a pose in both
\* arrays, in one of them, in none, with an empty pose in one of them, or
\* with landmarks that carry no visibility.
EngineOutputs ==
  {"both", "none", "worldOnly", "normalizedOnly", "emptyWorldPose",
   "emptyNormalizedPose", "bothNoVisibility", "throw"}

\* The pose model has 33 landmarks.
NumLandmarks ==
  33

\* Visibility is a confidence from 0 to 1, counted here in hundredths.
One ==
  100

\* A landmark field the engine left unset.
Undefined ==
  -1

\* The visibility the engine reports for landmark i of a pose.
EngineVisibility(i) ==
  IF i = 1 THEN 0 ELSE IF i = 2 THEN One ELSE (i * 7) % (One + 1)

EnginePose(out) ==
  [i \in 1..NumLandmarks |->
     [visibility |-> IF out = "bothNoVisibility" THEN Undefined
                     ELSE EngineVisibility(i)]]

\* The PoseLandmarkerResult of detectForVideo: one array of poses per
\* landmark kind.
detectForVideo(out) ==
  [ worldLandmarks |->
      IF out \in {"both", "bothNoVisibility", "worldOnly", "emptyNormalizedPose"}
      THEN << EnginePose(out) >>
      ELSE IF out = "emptyWorldPose" THEN << <<>> >> ELSE <<>>,
    landmarks |->
      IF out \in {"both", "bothNoVisibility", "normalizedOnly", "emptyWorldPose"}
      THEN << EnginePose(out) >>
      ELSE IF out = "emptyNormalizedPose" THEN << <<>> >> ELSE <<>> ]

\* The value of poseResult when detectPose() returned null.
NoResult ==
  [worldLandmarks |-> <<>>, normalizedLandmarks |-> <<>>]

FrameSizes ==
  {0, 640}

----------------------------------------------------------------------------
(* The program state as one record *)

World ==
  [ mounted |-> mounted, screenState |-> screenState,
    errorMessage |-> errorMessage, videoRef |-> videoRef,
    canvasRef |-> canvasRef, containerRef |-> containerRef,
    estimatorRef |-> estimatorRef, stopCameraRef |-> stopCameraRef,
    animationFrameRef |-> animationFrameRef, pc |-> pc,
    nSessions |-> nSessions, cam |-> cam, est |-> est,
    scheduled |-> scheduled, rafCount |-> rafCount, ctxOk |-> ctxOk,
    ret |-> ret, now |-> now, detected |-> detected,
    poseResult |-> poseResult, canvas |-> canvas, drawArgs |-> drawArgs,
    authStore |-> authStore, authService |-> authService,
    lastFrameTimeRef |-> lastFrameTimeRef, fpsRef |-> fpsRef,
    frameArg |-> frameArg, ops |-> <<>> ]

Commit(w) ==
  /\ mounted' = w.mounted
  /\ screenState' = w.screenState
  /\ errorMessage' = w.errorMessage
  /\ videoRef' = w.videoRef
  /\ canvasRef' = w.canvasRef
  /\ containerRef' = w.containerRef
  /\ estimatorRef' = w.estimatorRef
  /\ stopCameraRef' = w.stopCameraRef
  /\ animationFrameRef' = w.animationFrameRef
  /\ pc' = w.pc
  /\ nSessions' = w.nSessions
  /\ cam' = w.cam
  /\ est' = w.est
  /\ scheduled' = w.scheduled
  /\ rafCount' = w.rafCount
  /\ ctxOk' = w.ctxOk
  /\ ret' = w.ret
  /\ now' = w.now
  /\ detected' = w.detected
  /\ poseResult' = w.poseResult
  /\ canvas' = w.canvas
  /\ drawArgs' = w.drawArgs
  /\ authStore' = w.authStore
  /\ authService' = w.authService
  /\ lastFrameTimeRef' = w.lastFrameTimeRef
  /\ fpsRef' = w.fpsRef
  /\ frameArg' = w.frameArg
  /\ ops' = w.ops

Log(w, o) ==
  [w EXCEPT !.ops = Append(@, o)]

Has(s, o) ==
  \E i \in 1 .. Len(s) : s[i] = o

NewCamera ==
  [ phase |-> "none", live |-> FALSE, srcObject |-> FALSE, inDom |-> FALSE,
    stopCalls |-> 0, firstFrame |-> FALSE, cause |-> "", error |-> "" ]

NewEstimator ==
  [ state |-> "uninitialized", landmarker |-> FALSE, awaitingFileset |-> 0,
    awaitingCreate |-> 0, loads |-> 0, opened |-> 0, closeCalls |-> 0,
    disposeCalled |-> FALSE, timestamps |-> <<>> ]

\* JavaScript numbers that are not whole are kept as exact fractions
\* num / den in lowest terms with den > 0.
RECURSIVE GCD(_, _)
GCD(a, b) ==
  IF b = 0 THEN a ELSE GCD(b, a % b)

Abs(a) ==
  IF a < 0 THEN -a ELSE a

Frac(num, den) ==
  LET g == GCD(Abs(num), Abs(den))
      s == IF den < 0 THEN -1 ELSE 1
  IN  [num |-> (s * num) \div g, den |-> (s * den) \div g]

Whole(n) ==
  [num |-> n, den |-> 1]

Plus(a, b) ==
  Frac(a.num * b.den + b.num * a.den, a.den * b.den)

Minus(a, b) ==
  Frac(a.num * b.den - b.num * a.den, a.den * b.den)

Times(a, b) ==
  Frac(a.num * b.num, a.den * b.den)

Over(a, b) ==
  Frac(a.num * b.den, a.den * b.num)

InitBase ==
  /\ mounted = TRUE
  /\ screenState = "idle"
  /\ errorMessage = ""
  /\ videoRef = Null
  /\ canvasRef = TRUE
  /\ containerRef = TRUE
  /\ estimatorRef = Null
  /\ stopCameraRef = Null
  /\ animationFrameRef = Null
  /\ pc = "none"
  /\ nSessions = 0
  /\ cam = [c \in Sessions |-> NewCamera]
  /\ est = [e \in Sessions |-> NewEstimator]
  /\ scheduled = {}
  /\ rafCount = 0
  /\ ctxOk \in BOOLEAN
  /\ ret = "none"
  /\ ops = <<>>
  /\ act = "none"
  /\ call = [op |-> "none", pre |-> "uninitialized", width |-> 0, height |-> 0]
  /\ stopped = FALSE
  /\ now = 0
  /\ detected = [worldLandmarks |-> <<>>, landmarks |-> <<>>]
  /\ poseResult = NoResult
  /\ authStore = [session |-> "null", isLoading |-> TRUE, error |-> "null"]

\* The auth service before initialize(), with the given auth state: nothing
\* in flight, no listener, no change reported yet.
NewAuthService(state) ==
  [ state |-> state, listening |-> FALSE, events |-> <<>>,
    getSession |-> "none", snapshot |-> "null",
    pending |-> "none", lastOp |-> "none", ret |-> "none", changes |-> 0,
    result |-> [success |-> TRUE, message |-> "undefined"] ]

Init ==
  /\ InitBase
  /\ lastFrameTimeRef = Whole(0)
  /\ fpsRef = Whole(0)
  /\ frameArg = Whole(0)
  /\ canvas = [width |-> 640, height |-> 480, calls |-> <<>>]
  /\ drawArgs = [isNull |-> TRUE, items |-> <<>>, threshold |-> 0]
  /\ authService = NewAuthService("null")

----------------------------------------------------------------------------
(* MediaPipePoseEstimator (pose.web.ts) *)

\* Faulty variant of init: a call while loading starts another load.
init_noLoadingGuard(w, e) ==
  IF w.est[e].state = "disposed"
  THEN [w EXCEPT !.ret = "throw:disposed"]
  ELSE IF w.est[e].state = "ready"
  THEN [w EXCEPT !.ret = "resolved"]
  ELSE [Log(w, "FilesetResolver.forVisionTasks") EXCEPT
          !.est[e].state = "loading",
          !.est[e].awaitingFileset = @ + 1,
          !.est[e].loads = @ + 1,
          !.ret = "pending"]

\* Faulty variant of init: the disposed state is not rejected.
init_noDisposedGuard(w, e) ==
  IF w.est[e].state = "loading" \/ w.est[e].state = "ready"
  THEN [w EXCEPT !.ret = "resolved"]
  ELSE [Log(w, "FilesetResolver.forVisionTasks") EXCEPT
          !.est[e].state = "loading",
          !.est[e].awaitingFileset = @ + 1,
          !.est[e].loads = @ + 1,
          !.ret = "pending"]

\* init() up to its first await: the guards, then state = "loading" and the
\* request of the WASM fileset.  ret is how the call has settled so far.
init(w, e) ==
  IF w.est[e].state = "disposed"
  THEN [w EXCEPT !.ret = "throw:disposed"]
  ELSE IF w.est[e].state = "loading" \/ w.est[e].state = "ready"
  THEN [w EXCEPT !.ret = "resolved"]
  ELSE [Log(w, "FilesetResolver.forVisionTasks") EXCEPT
          !.est[e].state = "loading",
          !.est[e].awaitingFileset = @ + 1,
          !.est[e].loads = @ + 1,
          !.ret = "pending"]

\* init() resumed after FilesetResolver.forVisionTasks resolved: it calls
\* PoseLandmarker.createFromOptions and awaits it.
initFilesetResolved(w, e) ==
  [Log(w, "PoseLandmarker.createFromOptions") EXCEPT
     !.est[e].awaitingFileset = @ - 1,
     !.est[e].awaitingCreate = @ + 1,
     !.ret = "pending"]

\* Faulty variant of init's last step: the engine is stored but the state is
\* left as it was.
initCreateResolved_noState(w, e) ==
  [w EXCEPT
     !.est[e].awaitingCreate = @ - 1,
     !.est[e].landmarker = TRUE,
     !.est[e].opened = @ + 1,
     !.ret = "resolved"]

\* init() resumed after createFromOptions resolved: the engine is stored and
\* the state becomes ready.
initCreateResolved(w, e) ==
  [w EXCEPT
     !.est[e].awaitingCreate = @ - 1,
     !.est[e].landmarker = TRUE,
     !.est[e].opened = @ + 1,
     !.est[e].state = "ready",
     !.ret = "resolved"]

\* Faulty variant of init's catch block: the state is not reset.
initCatch_keepLoading(w, e, stage) ==
  [w EXCEPT
     !.est[e].awaitingFileset = IF stage = "fileset" THEN @ - 1 ELSE @,
     !.est[e].awaitingCreate = IF stage = "create" THEN @ - 1 ELSE @,
     !.ret = IF stage = "fileset" THEN "throw:init:wasm"
                                  ELSE "throw:init:model"]

\* init()'s catch block, entered when either await rejects.
initCatch(w, e, stage) ==
  [w EXCEPT
     !.est[e].awaitingFileset = IF stage = "fileset" THEN @ - 1 ELSE @,
     !.est[e].awaitingCreate = IF stage = "create" THEN @ - 1 ELSE @,
     !.est[e].state = "uninitialized",
     !.ret = IF stage = "fileset" THEN "throw:init:wasm"
                                  ELSE "throw:init:model"]

\* Faulty variant of the landmark conversion: visibility is copied as it is.
mapLandmark_raw(lm) ==
  [visibility |-> lm.visibility]

\* lm => ({ ..., visibility: lm.visibility ?? 0 })
mapLandmark(lm) ==
  [visibility |-> IF lm.visibility = Undefined THEN 0 ELSE lm.visibility]

\* The return statement of detectPose for an engine result r.
PoseResultOf(r) ==
  [ worldLandmarks |->
      [i \in 1..Len(r.worldLandmarks[1]) |-> mapLandmark(r.worldLandmarks[1][i])],
    normalizedLandmarks |->
      [i \in 1..Len(r.landmarks[1]) |-> mapLandmark(r.landmarks[1][i])] ]

\* The test of detectPose that an engine result r holds no usable pose.
NothingDetected(r) ==
  \/ Len(r.worldLandmarks) = 0
  \/ Len(r.worldLandmarks[1]) = 0
  \/ Len(r.landmarks) = 0
  \/ Len(r.landmarks[1]) = 0

\* Faulty variant of detectPose's tail: a world pose alone makes a result.
detectPoseRun_worldSuffices(w, out) ==
  LET w1 == Log(w, "detectForVideo")
      r  == detectForVideo(out)
      normalized == IF Len(r.landmarks) = 0 THEN <<>> ELSE r.landmarks[1]
  IN  IF out = "throw" THEN [w1 EXCEPT !.ret = "throw"]
      ELSE IF Len(r.worldLandmarks) = 0 \/ Len(r.worldLandmarks[1]) = 0
      THEN [w1 EXCEPT !.ret = "null", !.detected = r, !.poseResult = NoResult]
      ELSE [w1 EXCEPT !.ret = "result", !.detected = r,
                      !.poseResult =
                        [worldLandmarks |->
                           [i \in 1..Len(r.worldLandmarks[1]) |->
                              mapLandmark(r.worldLandmarks[1][i])],
                         normalizedLandmarks |->
                           [i \in 1..Len(normalized) |->
                              mapLandmark(normalized[i])]]]

\* detectPose from the engine call on.
detectPoseRun(w, out) ==
  LET w1 == Log(w, "detectForVideo")
      r  == detectForVideo(out)
  IN  IF out = "throw" THEN [w1 EXCEPT !.ret = "throw"]
      ELSE IF NothingDetected(r)
      THEN [w1 EXCEPT !.ret = "null", !.detected = r, !.poseResult = NoResult]
      ELSE [w1 EXCEPT !.ret = "result", !.detected = r,
                      !.poseResult = PoseResultOf(r)]

\* Faulty variant of detectPose: a frame of zero size is not rejected.
detectPose_noFrameCheck(w, e, width, height, out) ==
  IF w.est[e].state # "ready" \/ ~w.est[e].landmarker
  THEN [w EXCEPT !.ret = "null", !.poseResult = NoResult]
  ELSE detectPoseRun(w, out)

\* detectPose(videoElement, timestampMs) on a frame of the given size, with
\* out what the engine does if it is invoked.
detectPose(w, e, width, height, out) ==
  IF w.est[e].state # "ready" \/ ~w.est[e].landmarker
  THEN [w EXCEPT !.ret = "null", !.poseResult = NoResult]
  ELSE IF width = 0 \/ height = 0
  THEN [w EXCEPT !.ret = "null", !.poseResult = NoResult]
  ELSE detectPoseRun(w, out)

isReady(w, e) ==
  w.est[e].state = "ready"

getState(w, e) ==
  w.est[e].state

\* Faulty variant of dispose: the landmarker is closed but not reset to null.
dispose_keepLandmarker(w, e) ==
  LET w1 == IF w.est[e].landmarker
            THEN [Log(w, "landmarker.close") EXCEPT
                    !.est[e].closeCalls = @ + 1]
            ELSE w
  IN  [w1 EXCEPT !.est[e].state = "disposed",
                 !.est[e].disposeCalled = TRUE,
                 !.ret = "void"]

dispose(w, e) ==
  LET w1 == IF w.est[e].landmarker
            THEN [Log(w, "landmarker.close") EXCEPT
                    !.est[e].landmarker = FALSE,
                    !.est[e].closeCalls = @ + 1]
            ELSE w
  IN  [w1 EXCEPT !.est[e].state = "disposed",
                 !.est[e].disposeCalled = TRUE,
                 !.ret = "void"]

----------------------------------------------------------------------------
(* The estimator under arbitrary calls: one instance, any interleaving of    *)
(* init(), detectPose(), dispose() and the settling of the model load.       *)

Untouched(w) ==
  /\ Commit(w)
  /\ stopped' = stopped

EstCallInit ==
  /\ est[Probe].state = "uninitialized" => est[Probe].loads < MaxLoads
  /\ Untouched(init(World, Probe))
  /\ act' = "init"
  /\ call' = [op |-> "init", pre |-> est[Probe].state, width |-> 0, height |-> 0]

EstFilesetResolves ==
  /\ est[Probe].awaitingFileset > 0
  /\ Untouched(initFilesetResolved(World, Probe))
  /\ act' = "init:fileset"
  /\ call' = [op |-> "init", pre |-> est[Probe].state, width |-> 0, height |-> 0]

EstFilesetRejects ==
  /\ est[Probe].awaitingFileset > 0
  /\ Untouched(initCatch(World, Probe, "fileset"))
  /\ act' = "init:catch:fileset"
  /\ call' = [op |-> "init", pre |-> est[Probe].state, width |-> 0, height |-> 0]

EstCreateResolves ==
  /\ est[Probe].awaitingCreate > 0
  /\ Untouched(initCreateResolved(World, Probe))
  /\ act' = "init:create"
  /\ call' = [op |-> "init", pre |-> est[Probe].state, width |-> 0, height |-> 0]

EstCreateRejects ==
  /\ est[Probe].awaitingCreate > 0
  /\ Untouched(initCatch(World, Probe, "create"))
  /\ act' = "init:catch:create"
  /\ call' = [op |-> "init", pre |-> est[Probe].state, width |-> 0, height |-> 0]

EstCallDetectPose ==
  \E width \in FrameSizes, height \in FrameSizes, out \in EngineOutputs :
    /\ Untouched(detectPose(World, Probe, width, height, out))
    /\ act' = "detectPose"
    /\ call' = [op |-> "detectPose", pre |-> est[Probe].state,
                width |-> width, height |-> height]

EstCallDispose ==
  /\ Untouched(dispose(World, Probe))
  /\ act' = "dispose"
  /\ call' = [op |-> "dispose", pre |-> est[Probe].state, width |-> 0, height |-> 0]

EstNext ==
  \/ EstCallInit
  \/ EstFilesetResolves
  \/ EstFilesetRejects
  \/ EstCreateResolves
  \/ EstCreateRejects
  \/ EstCallDetectPose
  \/ EstCallDispose

EstSpec ==
  Init /\ [][EstNext]_vars

----------------------------------------------------------------------------
(* Camera service (camera.web.ts) *)

isCameraSupported(supported) ==
  supported

\* startCamera() up to its first await: getUserMedia is requested.
startCamera(w, c) ==
  [Log(w, "getUserMedia") EXCEPT !.cam[c].phase = "getUserMedia"]

\* Faulty variant of the rejection path: every cause becomes one generic error.
startCameraRejected_generic(w, c, cause) ==
  [w EXCEPT !.cam[c].phase = "failed",
            !.cam[c].cause = cause,
            !.cam[c].error = "CameraError"]

\* getUserMedia rejects with `cause`: the await is not inside a try, so
\* startCamera rejects with the same value, before any element is created.
startCameraRejected(w, c, cause) ==
  [w EXCEPT !.cam[c].phase = "failed",
            !.cam[c].cause = cause,
            !.cam[c].error = cause]

\* Faulty variant of the resumption: the handle is returned without waiting
\* for loadeddata.
startCameraStream_noWait(w, c) ==
  [Log(w, "createElement(video)") EXCEPT
     !.cam[c].phase = "ready",
     !.cam[c].live = TRUE,
     !.cam[c].srcObject = TRUE]

\* startCamera() resumed with the stream: the video element is created, the
\* stream attached, and the loadeddata event awaited.
startCameraStream(w, c) ==
  [Log(w, "createElement(video)") EXCEPT
     !.cam[c].phase = "loadeddata",
     !.cam[c].live = TRUE,
     !.cam[c].srcObject = TRUE]

\* onloadeddata: the element holds its first frame, the promise resolves and
\* startCamera returns the handle.
startCameraLoaded(w, c) ==
  [w EXCEPT !.cam[c].firstFrame = TRUE,
            !.cam[c].phase = "ready"]

\* Faulty variant of stop: the element is paused but nothing is released.
stop_pauseOnly(w, c) ==
  [Log(w, "video.pause") EXCEPT !.cam[c].stopCalls = @ + 1]

\* The stop closure of the handle of camera c.
stop(w, c) ==
  [Log(Log(w, "track.stop"), "video.pause") EXCEPT
     !.cam[c].live = FALSE,
     !.cam[c].srcObject = FALSE,
     !.cam[c].stopCalls = @ + 1]

\* The element reports its intrinsic size once it holds a frame of an
\* attached stream, and 0 otherwise.
videoWidth(w, c) ==
  IF w.cam[c].srcObject /\ w.cam[c].firstFrame THEN 640 ELSE 0

videoHeight(w, c) ==
  IF w.cam[c].srcObject /\ w.cam[c].firstFrame THEN 480 ELSE 0

-----------------------------------------------------------------------------
(* The camera service under arbitrary calls: startCamera() may be called     *)
(* once per handle, getUserMedia settles either way, and a returned handle's *)
(* stop() may be called repeatedly.                                          *)

CamCall(c, op, w) ==
  /\ Untouched(w)
  /\ act' = op
  /\ call' = [op |-> op, pre |-> cam[c].phase,
              width |-> videoWidth(w, c), height |-> videoHeight(w, c)]

CamCallStart ==
  \E c \in Sessions :
    /\ cam[c].phase = "none"
    /\ CamCall(c, "startCamera", startCamera(World, c))

CamStreamResolves ==
  \E c \in Sessions :
    /\ cam[c].phase = "getUserMedia"
    /\ CamCall(c, "startCamera:stream", startCameraStream(World, c))

CamStreamRejects ==
  \E c \in Sessions, cause \in CameraErrors :
    /\ cam[c].phase = "getUserMedia"
    /\ CamCall(c, "startCamera:rejected", startCameraRejected(World, c, cause))

CamLoadedData ==
  \E c \in Sessions :
    /\ cam[c].phase = "loadeddata"
    /\ CamCall(c, "startCamera:loaded", startCameraLoaded(World, c))

CamCallStop ==
  \E c \in Sessions :
    /\ cam[c].phase = "ready"
    /\ cam[c].stopCalls < MaxStops
    /\ CamCall(c, "camera.stop", stop(World, c))

CamNext ==
  \/ CamCallStart
  \/ CamStreamResolves
  \/ CamStreamRejects
  \/ CamLoadedData
  \/ CamCallStop

CamSpec ==
  Init /\ [][CamNext]_vars

-----------------------------------------------------------------------------
(* Overlay renderer (drawLandmarks.ts).  Coordinates and visibilities are    *)
(* counted in hundredths: a normalized 0.2 is 20, and 12800 is pixel 128.    *)
(* A landmark array is a sequence; the landmark of index i is its element    *)
(* i + 1.                                                                    *)

\* DEFAULT_DRAW_CONFIG.visibilityThreshold: 0.3
DefaultThreshold ==
  30

\* LANDMARK_INDEX pairs, in the order of the table.
SKELETON_CONNECTIONS ==
  << <<11, 12>>, <<11, 23>>, <<12, 24>>, <<23, 24>>,
     <<11, 13>>, <<13, 15>>, <<12, 14>>, <<14, 16>>,
     <<23, 25>>, <<25, 27>>, <<24, 26>>, <<26, 28>>,
     <<27, 29>>, <<29, 31>>, <<27, 31>>,
     <<28, 30>>, <<30, 32>>, <<28, 32>>,
     <<7, 2>>, <<2, 0>>, <<0, 5>>, <<5, 8>> >>

\* One call on the 2D context; `of` is the index of the landmark it draws.
Cmd(c, x, y, of) ==
  [cmd |-> c, x |-> x, y |-> y, of |-> of]

\* normalizedLandmarks[i] is not undefined.
Exists(items, i) ==
  i < Len(items)

At(items, i) ==
  items[i + 1]

\* landmark.visibility ?? 0
Visibility(lm) ==
  IF lm.visibility = Undefined THEN 0 ELSE lm.visibility

\* Faulty variant of the visibility test: the threshold itself is excluded.
Drawable_exclusive(lm, threshold) ==
  Visibility(lm) > threshold

\* The negation of `visibility < finalConfig.visibilityThreshold`.
Drawable(lm, threshold) ==
  ~(Visibility(lm) < threshold)

\* Faulty variant of the mapping: the x axis is mirrored.
toCanvasCoords_mirrored(landmark, canvasWidth, canvasHeight) ==
  [x |-> canvasWidth * One - landmark.x * canvasWidth,
   y |-> landmark.y * canvasHeight]

toCanvasCoords(landmark, canvasWidth, canvasHeight) ==
  [x |-> landmark.x * canvasWidth, y |-> landmark.y * canvasHeight]

\* Faulty variant of the connection test: only the start point is tested.
ConnectionDrawable_startOnly(items, e, threshold) ==
  /\ Exists(items, e[1])
  /\ Exists(items, e[2])
  /\ Drawable(At(items, e[1]), threshold)

\* The two `continue` tests of the connection loop, negated.
ConnectionDrawable(items, e, threshold) ==
  /\ Exists(items, e[1])
  /\ Exists(items, e[2])
  /\ Drawable(At(items, e[1]), threshold)
  /\ Drawable(At(items, e[2]), threshold)

\* The connection loop from entry k of the table on.
RECURSIVE ConnectionCalls(_, _, _, _, _)
ConnectionCalls(k, items, threshold, width, height) ==
  IF k > Len(SKELETON_CONNECTIONS) THEN <<>>
  ELSE LET e == SKELETON_CONNECTIONS[k]
           start == toCanvasCoords(At(items, e[1]), width, height)
           end   == toCanvasCoords(At(items, e[2]), width, height)
       IN  (IF ConnectionDrawable(items, e, threshold)
            THEN << Cmd("beginPath", 0, 0, Undefined),
                    Cmd("moveTo", start.x, start.y, e[1]),
                    Cmd("lineTo", end.x, end.y, e[2]),
                    Cmd("stroke", 0, 0, Undefined) >>
            ELSE <<>>)
           \o ConnectionCalls(k + 1, items, threshold, width, height)

\* The landmark loop from index i on: a white disc, then a coloured one.
RECURSIVE LandmarkCalls(_, _, _, _, _)
LandmarkCalls(i, items, threshold, width, height) ==
  IF ~(i < Len(items)) THEN <<>>
  ELSE LET pos == toCanvasCoords(At(items, i), width, height)
       IN  (IF Drawable(At(items, i), threshold)
            THEN << Cmd("beginPath", 0, 0, Undefined),
                    Cmd("arc", pos.x, pos.y, i),
                    Cmd("fill", 0, 0, Undefined),
                    Cmd("beginPath", 0, 0, Undefined),
                    Cmd("arc", pos.x, pos.y, i),
                    Cmd("fill", 0, 0, Undefined) >>
            ELSE <<>>)
           \o LandmarkCalls(i + 1, items, threshold, width, height)

\* Faulty variant of drawSkeleton: nothing is cleared when there is no pose.
drawSkeleton_clearLate(w, normalizedLandmarks, threshold) ==
  LET width  == w.canvas.width
      height == w.canvas.height
      items  == normalizedLandmarks.items
      w1 == [w EXCEPT !.drawArgs = [isNull |-> normalizedLandmarks.isNull,
                                    items |-> items,
                                    threshold |-> threshold],
                      !.canvas.calls = <<>>]
  IN  IF normalizedLandmarks.isNull \/ Len(items) = 0
      THEN w1
      ELSE [w1 EXCEPT !.canvas.calls =
              << Cmd("clearRect", width, height, Undefined) >>
              \o ConnectionCalls(1, items, threshold, width, height)
              \o LandmarkCalls(0, items, threshold, width, height)]

\* Faulty variant of drawSkeleton: the landmark loop runs before the
\* connection loop.
drawSkeleton_pointsFirst(w, normalizedLandmarks, threshold) ==
  LET width  == w.canvas.width
      height == w.canvas.height
      items  == normalizedLandmarks.items
      w1 == [w EXCEPT !.drawArgs = [isNull |-> normalizedLandmarks.isNull,
                                    items |-> items,
                                    threshold |-> threshold],
                      !.canvas.calls =
                         << Cmd("clearRect", width, height, Undefined) >>]
  IN  IF normalizedLandmarks.isNull \/ Len(items) = 0
      THEN w1
      ELSE [w1 EXCEPT !.canvas.calls =
              @ \o LandmarkCalls(0, items, threshold, width, height)
                \o ConnectionCalls(1, items, threshold, width, height)]

\* drawSkeleton(ctx, normalizedLandmarks, { visibilityThreshold: threshold })
\* on the context of w.canvas; canvas.calls are the calls of this run.
drawSkeleton(w, normalizedLandmarks, threshold) ==
  LET width  == w.canvas.width
      height == w.canvas.height
      items  == normalizedLandmarks.items
      w1 == [w EXCEPT !.drawArgs = [isNull |-> normalizedLandmarks.isNull,
                                    items |-> items,
                                    threshold |-> threshold],
                      !.canvas.calls =
                         << Cmd("clearRect", width, height, Undefined) >>]
  IN  IF normalizedLandmarks.isNull \/ Len(items) = 0
      THEN w1
      ELSE [w1 EXCEPT !.canvas.calls =
              @ \o ConnectionCalls(1, items, threshold, width, height)
                \o LandmarkCalls(0, items, threshold, width, height)]

\* What the page shows for canvas x: the canvas element is styled with
\* transform: scaleX(-1).
DisplayedX(x, width) ==
  width * One - x

-----------------------------------------------------------------------------
(* The renderer on one call: the arguments are chosen at the start, among   *)
(* landmark arrays of several lengths with a chosen set of landmarks at one  *)
(* visibility and the rest at another, and drawSkeleton() is applied to them.*)

ArrayLengths ==
  {0, 12, 13, NumLandmarks}

HighSets ==
  { {}, {0, 1}, {11, 12}, {11, 12, 13, 23}, 0..(NumLandmarks - 1) }

HighVisibilities ==
  {DefaultThreshold, DefaultThreshold + 1, 90}

LowVisibilities ==
  {Undefined, 10, DefaultThreshold - 1}

Thresholds ==
  {DefaultThreshold, 80}

CanvasSizes ==
  { [width |-> 640, height |-> 480], [width |-> 1280, height |-> 720] }

\* Landmark i of a test array: spread over the frame, landmark 1 at x = 0.2.
TestLandmark(i, visibility) ==
  [x |-> (20 * i) % (One + 1), y |-> (7 * i) % (One + 1),
   visibility |-> visibility]

TestLandmarks(n, high, hi, lo) ==
  [k \in 1..n |-> TestLandmark(k - 1, IF (k - 1) \in high THEN hi ELSE lo)]

DrawInputs ==
  { [isNull |-> TRUE, items |-> <<>>] } \cup
  { [isNull |-> FALSE, items |-> TestLandmarks(n, high, hi, lo)] :
      n \in ArrayLengths, high \in HighSets,
      hi \in HighVisibilities, lo \in LowVisibilities }

DrawInit ==
  /\ InitBase
  /\ lastFrameTimeRef = Whole(0)
  /\ fpsRef = Whole(0)
  /\ frameArg = Whole(0)
  /\ authService = NewAuthService("null")
  /\ \E size \in CanvasSizes :
       canvas = [width |-> size.width, height |-> size.height, calls |-> <<>>]
  /\ \E normalizedLandmarks \in DrawInputs, threshold \in Thresholds :
       drawArgs = [isNull |-> normalizedLandmarks.isNull,
                   items |-> normalizedLandmarks.items,
                   threshold |-> threshold]

DrawCall ==
  /\ act = "none"
  /\ Untouched(drawSkeleton(World,
                            [isNull |-> drawArgs.isNull, items |-> drawArgs.items],
                            drawArgs.threshold))
  /\ act' = "drawSkeleton"
  /\ call' = call

DrawNext ==
  DrawCall

DrawSpec ==
  DrawInit /\ [][DrawNext]_vars

-----------------------------------------------------------------------------
(* The frame-rate update as a function of the previous smoothed value, the   *)
(* previous frame's time and the frame's timestamp.                          *)

\* Faulty variant of the frame-rate update: the instantaneous rate replaces
\* the smoothed one.
smoothFps_instant(w, timestamp) ==
  LET deltaMs == Minus(timestamp, w.lastFrameTimeRef)
      w1      == [w EXCEPT !.lastFrameTimeRef = timestamp]
  IN  IF deltaMs.num > 0
      THEN [w1 EXCEPT !.fpsRef = Over(Whole(1000), deltaMs)]
      ELSE w1

\* The frame-rate update of processFrame: an exponential moving average of
\* 1000 / deltaMs with weight 0.9 on the previous value.
smoothFps(w, timestamp) ==
  LET deltaMs == Minus(timestamp, w.lastFrameTimeRef)
      w1      == [w EXCEPT !.lastFrameTimeRef = timestamp]
  IN  IF deltaMs.num > 0
      THEN LET instantFps == Over(Whole(1000), deltaMs)
           IN  [w1 EXCEPT !.fpsRef = Plus(Times(@, Frac(9, 10)),
                                          Times(instantFps, Frac(1, 10)))]
      ELSE w1

SmoothedValues ==
  {Whole(0), Whole(30), Whole(33), Frac(297, 10)}

PreviousTimes ==
  {Whole(0), Whole(100), Frac(250, 3)}

Timestamps ==
  {Whole(0), Whole(50), Frac(250, 3), Whole(100), Frac(350, 3), Whole(150)}

FpsInit ==
  /\ InitBase
  /\ canvas = [width |-> 640, height |-> 480, calls |-> <<>>]
  /\ drawArgs = [isNull |-> TRUE, items |-> <<>>, threshold |-> 0]
  /\ authService = NewAuthService("null")
  /\ fpsRef \in SmoothedValues
  /\ lastFrameTimeRef \in PreviousTimes
  /\ frameArg \in Timestamps

FpsCall ==
  /\ act = "none"
  /\ Untouched(smoothFps(World, frameArg))
  /\ act' = "smoothFps"
  /\ call' = [op |-> "smoothFps",
              pre |-> [fpsRef |-> fpsRef, lastFrameTimeRef |-> lastFrameTimeRef],
              width |-> 0, height |-> 0]

FpsNext ==
  FpsCall

FpsSpec ==
  FpsInit /\ [][FpsNext]_vars

-----------------------------------------------------------------------------
(* Auth store (authStore.ts) over the AuthService interface.  A session is   *)
(* named by a string, "null" being no session; error "null" is no error.     *)

MaxAuthChanges ==
  2

\* What the service's auth state can be.
AuthStates ==
  {"null", "alice", "bob"}

\* What signUp and signIn of the service resolve with: AuthResult.success and
\* AuthResult.error?.message, "undefined" when error is null.
AuthResults ==
  { [success |-> TRUE, message |-> "undefined"],
    [success |-> FALSE, message |-> "Invalid credentials"],
    [success |-> FALSE, message |-> "undefined"] }

\* What a rejected service promise carries: an Error's message, or a value
\* that is not an Error.
AuthRejections ==
  {"Rate limit exceeded", "NonError"}

AuthOperations ==
  {"signUp", "signIn", "signOut", "resetPassword"}

\* An async store method has reached its await: the service call is in flight.
Awaiting(w, op) ==
  [w EXCEPT !.authService.pending = op, !.authService.ret = "pending"]

\* An async store method has returned or thrown.
Settled(w, value) ==
  [w EXCEPT !.authService.lastOp = w.authService.pending,
            !.authService.pending = "none",
            !.authService.ret = value]

\* The callback given to authService.onAuthStateChange.
onAuthStateChange(w, session) ==
  [w EXCEPT !.authStore.session = session, !.authStore.isLoading = FALSE]

\* The continuation of authService.getSession().
getSessionThen(w, session) ==
  [w EXCEPT !.authStore.session = session,
            !.authStore.isLoading = FALSE,
            !.authService.getSession = "done"]

\* initialize(): subscribe, then ask for the current session; the service
\* reads its auth state for the answer now.
initialize(w) ==
  [w EXCEPT !.authService.listening = TRUE,
            !.authService.getSession = "pending",
            !.authService.snapshot = w.authService.state]

\* signUp up to its await.
signUp(w) ==
  Awaiting([w EXCEPT !.authStore.isLoading = TRUE, !.authStore.error = "null"],
           "signUp")

\* Faulty variant of signUp's continuation: a failure is not reported.
signUpResolved_silent(w, result) ==
  Settled([w EXCEPT !.authStore.isLoading = FALSE], "true")

\* signUp resumed with the service's result.
signUpResolved(w, result) ==
  IF ~result.success
  THEN Settled([w EXCEPT !.authStore.isLoading = FALSE,
                         !.authStore.error =
                            IF result.message = "undefined"
                            THEN "Sign up failed" ELSE result.message],
               "false")
  ELSE Settled([w EXCEPT !.authStore.isLoading = FALSE], "true")

\* signIn up to its await.
signIn(w) ==
  Awaiting([w EXCEPT !.authStore.isLoading = TRUE, !.authStore.error = "null"],
           "signIn")

\* signIn resumed with the service's result.
signInResolved(w, result) ==
  IF ~result.success
  THEN Settled([w EXCEPT !.authStore.isLoading = FALSE,
                         !.authStore.error =
                            IF result.message = "undefined"
                            THEN "Sign in failed" ELSE result.message],
               "false")
  ELSE Settled([w EXCEPT !.authStore.isLoading = FALSE], "true")

\* signOut up to its await.
signOut(w) ==
  Awaiting([w EXCEPT !.authStore.isLoading = TRUE], "signOut")

\* signOut resumed after the service signed out.
signOutResolved(w) ==
  Settled([w EXCEPT !.authStore.session = "null",
                    !.authStore.isLoading = FALSE], "void")

\* resetPassword up to its await.
resetPassword(w) ==
  Awaiting([w EXCEPT !.authStore.isLoading = TRUE, !.authStore.error = "null"],
           "resetPassword")

\* resetPassword resumed after the service resolved.
resetPasswordResolved(w) ==
  Settled([w EXCEPT !.authStore.isLoading = FALSE], "true")

\* The catch block of resetPassword.
resetPasswordCatch(w, err) ==
  Settled([w EXCEPT !.authStore.isLoading = FALSE,
                    !.authStore.error =
                       IF err = "NonError" THEN "Reset failed" ELSE err],
          "false")

\* The awaited service promise of signUp, signIn or signOut rejects: the
\* method has no try, so its own promise rejects and nothing is set.
awaitRejected(w) ==
  Settled(w, "rejected")

clearError(w) ==
  [w EXCEPT !.authStore.error = "null"]

\* The store method op up to its await.
AuthStart(w, op) ==
  IF op = "signUp" THEN signUp(w)
  ELSE IF op = "signIn" THEN signIn(w)
  ELSE IF op = "signOut" THEN signOut(w)
  ELSE resetPassword(w)

-----------------------------------------------------------------------------
(* The store under arbitrary use: initialize() once, one user operation at a *)
(* time (the screens disable their button while isLoading), the service's    *)
(* auth state changing on its own, and every promise settling either way.    *)

\* The service's auth state becomes `state`; a subscribed listener is told
\* of a change.
Reported(w, state) ==
  [w EXCEPT !.authService.state = state,
            !.authService.events =
               IF w.authService.listening /\ state # w.authService.state
               THEN Append(@, state) ELSE @]

AuthStep(w, name) ==
  /\ Untouched(w)
  /\ act' = name
  /\ call' = call

AuthInit ==
  /\ InitBase
  /\ lastFrameTimeRef = Whole(0)
  /\ fpsRef = Whole(0)
  /\ frameArg = Whole(0)
  /\ canvas = [width |-> 640, height |-> 480, calls |-> <<>>]
  /\ drawArgs = [isNull |-> TRUE, items |-> <<>>, threshold |-> 0]
  /\ \E state \in AuthStates : authService = NewAuthService(state)

AuthCallInitialize ==
  /\ ~authService.listening
  /\ AuthStep(initialize(World), "initialize")

AuthStateChanges ==
  /\ authService.changes < MaxAuthChanges
  /\ \E state \in AuthStates \ {authService.state} :
       AuthStep([Reported(World, state) EXCEPT !.authService.changes = @ + 1],
                "authStateChange")

AuthEventDelivered ==
  /\ authService.events # <<>>
  /\ AuthStep(onAuthStateChange(
                [World EXCEPT !.authService.events = Tail(@)],
                Head(authService.events)),
              "onAuthStateChange")

AuthGetSessionResolves ==
  /\ authService.getSession = "pending"
  /\ AuthStep(getSessionThen(World, authService.snapshot), "getSession:then")

AuthGetSessionRejects ==
  /\ authService.getSession = "pending"
  /\ AuthStep([World EXCEPT !.authService.getSession = "failed"],
              "getSession:rejected")

AuthCallOperation ==
  /\ authService.pending = "none"
  /\ \E op \in AuthOperations : AuthStep(AuthStart(World, op), "auth:call")

AuthSignResolves ==
  /\ authService.pending \in {"signUp", "signIn"}
  /\ \E result \in AuthResults :
       AuthStep([ (IF authService.pending = "signUp"
                   THEN signUpResolved(World, result)
                   ELSE signInResolved(World, result))
                  EXCEPT !.authService.result = result ],
                "auth:resolved")

AuthSignOutResolves ==
  /\ authService.pending = "signOut"
  /\ AuthStep(signOutResolved(Reported(World, "null")), "auth:resolved")

AuthResetResolves ==
  /\ authService.pending = "resetPassword"
  /\ AuthStep(resetPasswordResolved(World), "auth:resolved")

AuthResetRejects ==
  /\ authService.pending = "resetPassword"
  /\ \E err \in AuthRejections :
       AuthStep(resetPasswordCatch(World, err), "auth:rejected")

AuthAwaitRejects ==
  /\ authService.pending \in {"signUp", "signIn", "signOut"}
  /\ AuthStep(awaitRejected(World), "auth:rejected")

AuthClearError ==
  /\ authStore.error # "null"
  /\ AuthStep(clearError(World), "clearError")

AuthNext ==
  \/ AuthCallInitialize
  \/ AuthStateChanges
  \/ AuthEventDelivered
  \/ AuthGetSessionResolves
  \/ AuthGetSessionRejects
  \/ AuthCallOperation
  \/ AuthSignResolves
  \/ AuthSignOutResolves
  \/ AuthResetResolves
  \/ AuthResetRejects
  \/ AuthAwaitRejects
  \/ AuthClearError

AuthSpec ==
  AuthInit /\ [][AuthNext]_vars

----------------------------------------------------------------------------
(* Frame loop controller (PosePrototypeScreen.tsx) *)

\* React keeps no state for a component that is no longer mounted.
setScreenState(w, s) ==
  LET w1 == Log(w, s)
  IN  IF w.mounted THEN [w1 EXCEPT !.screenState = s] ELSE w1

setErrorMessage(w, m) ==
  IF w.mounted THEN [w EXCEPT !.errorMessage = m] ELSE w

requestAnimationFrame(w) ==
  [Log(w, "requestAnimationFrame") EXCEPT
     !.rafCount = @ + 1,
     !.scheduled = @ \cup {w.rafCount + 1},
     !.animationFrameRef = w.rafCount + 1]

cancelAnimationFrame(w, h) ==
  [Log(w, "cancelAnimationFrame") EXCEPT !.scheduled = @ \ {h}]

\* Faulty variant of cleanup: the camera is stopped before the estimator is
\* disposed.
cleanup_cameraFirst(w) ==
  LET w1 == IF w.animationFrameRef # Null
            THEN [cancelAnimationFrame(w, w.animationFrameRef) EXCEPT
                    !.animationFrameRef = Null]
            ELSE w
      w2 == IF w1.stopCameraRef # Null
            THEN [stop(w1, w1.stopCameraRef) EXCEPT !.stopCameraRef = Null]
            ELSE w1
      w3 == IF w2.estimatorRef # Null
            THEN [dispose(Log(w2, "dispose"), w2.estimatorRef) EXCEPT
                    !.estimatorRef = Null]
            ELSE w2
      w4 == IF w3.videoRef # Null /\ w3.cam[w3.videoRef].inDom
            THEN [Log(w3, "removeChild") EXCEPT
                    !.cam[w3.videoRef].inDom = FALSE,
                    !.videoRef = Null]
            ELSE w3
      w5 == IF w4.canvasRef /\ w4.ctxOk THEN Log(w4, "clearRect") ELSE w4
  IN  w5

\* Faulty variant of cleanup: stopCameraRef is not reset after the call.
cleanup_keepStopRef(w) ==
  LET w1 == IF w.animationFrameRef # Null
            THEN [cancelAnimationFrame(w, w.animationFrameRef) EXCEPT
                    !.animationFrameRef = Null]
            ELSE w
      w2 == IF w1.estimatorRef # Null
            THEN [dispose(Log(w1, "dispose"), w1.estimatorRef) EXCEPT
                    !.estimatorRef = Null]
            ELSE w1
      w3 == IF w2.stopCameraRef # Null
            THEN stop(w2, w2.stopCameraRef)
            ELSE w2
      w4 == IF w3.videoRef # Null /\ w3.cam[w3.videoRef].inDom
            THEN [Log(w3, "removeChild") EXCEPT
                    !.cam[w3.videoRef].inDom = FALSE,
                    !.videoRef = Null]
            ELSE w3
      w5 == IF w4.canvasRef /\ w4.ctxOk THEN Log(w4, "clearRect") ELSE w4
  IN  w5

\* Faulty variant of cleanup: the estimator is dropped without dispose().
cleanup_noDispose(w) ==
  LET w1 == IF w.animationFrameRef # Null
            THEN [cancelAnimationFrame(w, w.animationFrameRef) EXCEPT
                    !.animationFrameRef = Null]
            ELSE w
      w2 == [w1 EXCEPT !.estimatorRef = Null]
      w3 == IF w2.stopCameraRef # Null
            THEN [stop(w2, w2.stopCameraRef) EXCEPT !.stopCameraRef = Null]
            ELSE w2
      w4 == IF w3.videoRef # Null /\ w3.cam[w3.videoRef].inDom
            THEN [Log(w3, "removeChild") EXCEPT
                    !.cam[w3.videoRef].inDom = FALSE,
                    !.videoRef = Null]
            ELSE w3
      w5 == IF w4.canvasRef /\ w4.ctxOk THEN Log(w4, "clearRect") ELSE w4
  IN  w5

\* Faulty variant of cleanup: the estimator is disposed but the reference to
\* it is kept.
cleanup_keepEstimatorRef(w) ==
  LET w1 == IF w.animationFrameRef # Null
            THEN [cancelAnimationFrame(w, w.animationFrameRef) EXCEPT
                    !.animationFrameRef = Null]
            ELSE w
      w2 == IF w1.estimatorRef # Null
            THEN dispose(Log(w1, "dispose"), w1.estimatorRef)
            ELSE w1
      w3 == IF w2.stopCameraRef # Null
            THEN [stop(w2, w2.stopCameraRef) EXCEPT !.stopCameraRef = Null]
            ELSE w2
      w4 == IF w3.videoRef # Null /\ w3.cam[w3.videoRef].inDom
            THEN [Log(w3, "removeChild") EXCEPT
                    !.cam[w3.videoRef].inDom = FALSE,
                    !.videoRef = Null]
            ELSE w3
      w5 == IF w4.canvasRef /\ w4.ctxOk THEN Log(w4, "clearRect") ELSE w4
  IN  w5

\* Faulty variant of cleanup: the stop closure is dropped without being
\* called.
cleanup_dropCamera(w) ==
  LET w1 == IF w.animationFrameRef # Null
            THEN [cancelAnimationFrame(w, w.animationFrameRef) EXCEPT
                    !.animationFrameRef = Null]
            ELSE w
      w2 == IF w1.estimatorRef # Null
            THEN [dispose(Log(w1, "dispose"), w1.estimatorRef) EXCEPT
                    !.estimatorRef = Null]
            ELSE w1
      w3 == [w2 EXCEPT !.stopCameraRef = Null]
      w4 == IF w3.videoRef # Null /\ w3.cam[w3.videoRef].inDom
            THEN [Log(w3, "removeChild") EXCEPT
                    !.cam[w3.videoRef].inDom = FALSE,
                    !.videoRef = Null]
            ELSE w3
      w5 == IF w4.canvasRef /\ w4.ctxOk THEN Log(w4, "clearRect") ELSE w4
  IN  w5

cleanup(w) ==
  LET w1 == IF w.animationFrameRef # Null
            THEN [cancelAnimationFrame(w, w.animationFrameRef) EXCEPT
                    !.animationFrameRef = Null]
            ELSE w
      w2 == IF w1.estimatorRef # Null
            THEN [dispose(Log(w1, "dispose"), w1.estimatorRef) EXCEPT
                    !.estimatorRef = Null]
            ELSE w1
      w3 == IF w2.stopCameraRef # Null
            THEN [stop(w2, w2.stopCameraRef) EXCEPT !.stopCameraRef = Null]
            ELSE w2
      w4 == IF w3.videoRef # Null /\ w3.cam[w3.videoRef].inDom
            THEN [Log(w3, "removeChild") EXCEPT
                    !.cam[w3.videoRef].inDom = FALSE,
                    !.videoRef = Null]
            ELSE w3
      w5 == IF w4.canvasRef /\ w4.ctxOk THEN Log(w4, "clearRect") ELSE w4
  IN  w5

\* Faulty variant of the catch block: the message is not stored.
startSessionCatch_noMessage(w, message) ==
  [setScreenState(cleanup(w), "error") EXCEPT !.pc = "none"]

\* Faulty variant of the catch block: cleanup is not called.
startSessionCatch_noCleanup(w, message) ==
  [setScreenState(setErrorMessage(w, message), "error") EXCEPT !.pc = "none"]

\* The catch block of startSession.
startSessionCatch(w, message) ==
  LET w1 == cleanup(w)
      w2 == setErrorMessage(w1, message)
  IN  [setScreenState(w2, "error") EXCEPT !.pc = "none"]

\* Faulty variant of startSession: the camera is requested before the probe's
\* answer is looked at.
startSession_probeLate(w, supported) ==
  LET c  == w.nSessions + 1
      w1 == setScreenState([w EXCEPT !.nSessions = c], "loading")
      w2 == setErrorMessage(w1, "")
      w3 == startCamera(w2, c)
  IN  IF ~isCameraSupported(supported)
      THEN startSessionCatch(w3, "Camera is not supported in this browser.")
      ELSE [w3 EXCEPT !.pc = "startCamera"]

\* startSession up to its first await.
startSession(w, supported) ==
  LET c  == w.nSessions + 1
      w1 == setScreenState([w EXCEPT !.nSessions = c], "loading")
      w2 == setErrorMessage(w1, "")
  IN  IF ~isCameraSupported(supported)
      THEN startSessionCatch(w2, "Camera is not supported in this browser.")
      ELSE [startCamera(w2, c) EXCEPT !.pc = "startCamera"]

\* startSession resumed with the camera handle: steps 2 and 3 up to the await
\* of estimator.init().
startSessionCamera(w, c) ==
  LET w1 == [w EXCEPT !.videoRef = c, !.stopCameraRef = c]
  IN  [init(w1, c) EXCEPT !.pc = "init"]

startProcessingLoop(w) ==
  requestAnimationFrame(w)

\* Faulty variant of the last part of startSession: the canvas is not sized.
startSessionReady_noSize(w, e) ==
  LET w1 == [w EXCEPT !.estimatorRef = e]
      w2 == IF w1.containerRef /\ w1.videoRef # Null
            THEN [Log(w1, "insertBefore") EXCEPT !.cam[w1.videoRef].inDom = TRUE]
            ELSE w1
      w4 == setScreenState(w2, "running")
      w5 == [w4 EXCEPT !.lastFrameTimeRef = Whole(w4.now)]
  IN  [startProcessingLoop(w5) EXCEPT !.pc = "none"]

\* startSession resumed after estimator.init() resolved: steps 3 to 5.
startSessionReady(w, e) ==
  LET w1 == [w EXCEPT !.estimatorRef = e]
      w2 == IF w1.containerRef /\ w1.videoRef # Null
            THEN [Log(w1, "insertBefore") EXCEPT !.cam[w1.videoRef].inDom = TRUE]
            ELSE w1
      w3 == IF w2.canvasRef /\ w2.videoRef # Null
            THEN Log(w2, "canvas.size")
            ELSE w2
      w4 == setScreenState(w3, "running")
      w5 == [w4 EXCEPT !.lastFrameTimeRef = Whole(w4.now)]
  IN  [startProcessingLoop(w5) EXCEPT !.pc = "none"]

\* Faulty variant of the Stop handler: cleanup is not called.
stopOnPress_noCleanup(w) ==
  setScreenState(w, "idle")

\* onPress of the Stop button.
stopOnPress(w) ==
  setScreenState(cleanup(w), "idle")

\* Faulty variant of the Try Again handler: it starts a session itself.
tryAgainOnPress_restart(w) ==
  startSession(w, TRUE)

\* onPress of the Try Again button.
tryAgainOnPress(w) ==
  setErrorMessage(setScreenState(w, "idle"), "")

\* The timestamp handed to detectPose() of the held estimator, kept in call
\* order.
Passed(w, timestamp) ==
  [w EXCEPT !.est[w.estimatorRef].timestamps = Append(@, timestamp)]

\* Faulty variant of processFrame: detectPose() is given the time left on the
\* clock instead of the frame's timestamp.
processFrame_countdown(w, timestamp, out) ==
  IF w.estimatorRef = Null \/ w.videoRef = Null \/ ~w.canvasRef
  THEN w
  ELSE IF ~w.ctxOk
  THEN w
  ELSE LET v  == w.videoRef
           w1 == detectPose(Passed(Log(w, "detectPose"), MaxClock - timestamp),
                            w.estimatorRef,
                            videoWidth(w, v), videoHeight(w, v), out)
       IN  IF w1.ret = "throw"
           THEN Log(w1, "throw")
           ELSE requestAnimationFrame(
                  Log(smoothFps(Log(Log(w1, "drawSkeleton"), "fps"),
                               Whole(timestamp)), "drawFPS"))

\* Faulty variant of processFrame: the bail-out does not look at canvasRef.
processFrame_noCanvasCheck(w, timestamp, out) ==
  IF w.estimatorRef = Null \/ w.videoRef = Null
  THEN w
  ELSE IF ~w.ctxOk
  THEN w
  ELSE LET v  == w.videoRef
           w1 == detectPose(Passed(Log(w, "detectPose"), timestamp),
                            w.estimatorRef,
                            videoWidth(w, v), videoHeight(w, v), out)
       IN  IF w1.ret = "throw"
           THEN Log(w1, "throw")
           ELSE requestAnimationFrame(
                  Log(smoothFps(Log(Log(w1, "drawSkeleton"), "fps"),
                               Whole(timestamp)), "drawFPS"))

\* Faulty variant of processFrame: the next frame is requested before the
\* frame's work.
processFrame_scheduleFirst(w, timestamp, out) ==
  IF w.estimatorRef = Null \/ w.videoRef = Null \/ ~w.canvasRef
  THEN w
  ELSE IF ~w.ctxOk
  THEN w
  ELSE LET v  == w.videoRef
           w0 == requestAnimationFrame(w)
           w1 == detectPose(Passed(Log(w0, "detectPose"), timestamp),
                            w.estimatorRef,
                            videoWidth(w, v), videoHeight(w, v), out)
       IN  IF w1.ret = "throw"
           THEN Log(w1, "throw")
           ELSE Log(smoothFps(Log(Log(w1, "drawSkeleton"), "fps"),
                               Whole(timestamp)), "drawFPS")

\* One run of the frame callback; out is what the engine does if invoked.
processFrame(w, timestamp, out) ==
  IF w.estimatorRef = Null \/ w.videoRef = Null \/ ~w.canvasRef
  THEN w
  ELSE IF ~w.ctxOk
  THEN w
  ELSE LET v  == w.videoRef
           w1 == detectPose(Passed(Log(w, "detectPose"), timestamp),
                            w.estimatorRef,
                            videoWidth(w, v), videoHeight(w, v), out)
       IN  IF w1.ret = "throw"
           THEN Log(w1, "throw")
           ELSE requestAnimationFrame(
                  Log(smoothFps(Log(Log(w1, "drawSkeleton"), "fps"),
                               Whole(timestamp)), "drawFPS"))

----------------------------------------------------------------------------
(* The controller's handlers as actions.  In ops a screen state names the   *)
(* setScreenState call that sets it.                                         *)

Step(w, name) ==
  /\ Commit(w)
  /\ act' = name
  /\ call' = call
  /\ stopped' = IF Has(w.ops, "running") THEN FALSE ELSE stopped

\* "Start Camera", shown while the screen state is idle.
PressStart ==
  /\ mounted
  /\ screenState = "idle"
  /\ nSessions < MaxSessions
  /\ \E supported \in BOOLEAN :
       Step(startSession(World, supported), "startSession")

GetUserMediaResolves ==
  /\ pc = "startCamera"
  /\ cam[nSessions].phase = "getUserMedia"
  /\ Step(startCameraStream(World, nSessions), "startCamera:stream")

GetUserMediaRejects ==
  /\ pc = "startCamera"
  /\ cam[nSessions].phase = "getUserMedia"
  /\ \E kind \in CameraErrors :
       LET w == startCameraRejected(World, nSessions, kind)
       IN  Step(startSessionCatch(w, IF w.cam[nSessions].error = "NonError"
                                     THEN "An unknown error occurred"
                                     ELSE w.cam[nSessions].error),
                "startSession:catch")

LoadedData ==
  /\ pc = "startCamera"
  /\ cam[nSessions].phase = "loadeddata"
  /\ Step(startSessionCamera(startCameraLoaded(World, nSessions), nSessions),
          "startSession:camera")

FilesetResolves ==
  /\ pc = "init"
  /\ est[nSessions].awaitingFileset > 0
  /\ Step(initFilesetResolved(World, nSessions), "init:fileset")

FilesetRejects ==
  /\ pc = "init"
  /\ est[nSessions].awaitingFileset > 0
  /\ Step(startSessionCatch(initCatch(World, nSessions, "fileset"),
                            "Failed to initialize MediaPipe PoseEstimator: wasm"),
          "startSession:catch")

CreateResolves ==
  /\ pc = "init"
  /\ est[nSessions].awaitingCreate > 0
  /\ rafCount < MaxFrames
  /\ Step(startSessionReady(initCreateResolved(World, nSessions), nSessions),
          "startSession:ready")

CreateRejects ==
  /\ pc = "init"
  /\ est[nSessions].awaitingCreate > 0
  /\ Step(startSessionCatch(initCatch(World, nSessions, "create"),
                            "Failed to initialize MediaPipe PoseEstimator: model"),
          "startSession:catch")

\* The browser runs a scheduled frame callback.
\* The timestamp the browser gives a frame callback: the frame clock never
\* runs backwards.
FrameTimes ==
  { t \in now..MaxClock : t <= now + 1 }

FrameFires ==
  \E h \in scheduled, out \in EngineOutputs, timestamp \in FrameTimes :
    LET w == processFrame([World EXCEPT !.scheduled = @ \ {h},
                                        !.now = timestamp],
                          timestamp, out)
    IN  /\ w.rafCount <= MaxFrames
        /\ Step(w, "processFrame")

\* "Stop", shown while the screen state is running.
PressStop ==
  /\ mounted
  /\ screenState = "running"
  /\ Commit(stopOnPress(World))
  /\ act' = "stop"
  /\ call' = call
  /\ stopped' = TRUE

\* "Try Again", shown while the screen state is error.
PressTryAgain ==
  /\ mounted
  /\ screenState = "error"
  /\ Step(tryAgainOnPress(World), "tryAgain")

\* The screen unmounts: React detaches the element refs and runs the effect's
\* cleanup; which comes first depends on the React version.
Unmount ==
  /\ mounted
  /\ \E detachFirst \in BOOLEAN :
       LET w0 == [World EXCEPT !.mounted = FALSE]
           w1 == IF detachFirst
                 THEN cleanup([w0 EXCEPT !.canvasRef = FALSE,
                                         !.containerRef = FALSE])
                 ELSE [cleanup(w0) EXCEPT !.canvasRef = FALSE,
                                          !.containerRef = FALSE]
       IN  Step(w1, "unmount")

Next ==
  \/ PressStart
  \/ GetUserMediaResolves
  \/ GetUserMediaRejects
  \/ LoadedData
  \/ FilesetResolves
  \/ FilesetRejects
  \/ CreateResolves
  \/ CreateRejects
  \/ FrameFires
  \/ PressStop
  \/ PressTryAgain
  \/ Unmount

Spec ==
  Init /\ [][Next]_vars

----------------------------------------------------------------------------
(* Properties *)

NoCameraLive ==
  \A c \in Sessions : ~cam[c].live

NoEngineOpen ==
  \A e \in Sessions : ~est[e].landmarker

TickOps ==
  {"detectPose", "detectForVideo", "drawSkeleton", "fps", "drawFPS",
   "requestAnimationFrame"}

ReleaseOps ==
  {"cancelAnimationFrame", "dispose", "landmarker.close", "track.stop"}

\* C1: once dispose() has been called on an estimator, getState() is
\* "disposed" and isReady() is false in every later state.
C1_DisposedIsFinal ==
  est[Probe].disposeCalled =>
    (getState(World, Probe) = "disposed" /\ ~isReady(World, Probe))

\* C2: when a start sequence fails, everything acquired so far is released
\* (camera tracks stopped, stored estimator disposed) before the call that
\* sets the screen state to error.
C2_ReleasedBeforeError ==
  \A i \in 1 .. Len(ops) :
    ops[i] = "error" =>
      /\ NoCameraLive
      /\ NoEngineOpen
      /\ estimatorRef = Null
      /\ stopCameraRef = Null
      /\ scheduled = {}
      /\ \A j \in 1 .. Len(ops) : ops[j] \in ReleaseOps => j < i

\* A start sequence acquired the camera, then failed, and released it.
C2_Witness ==
  /\ act = "startSession:catch"
  /\ Has(ops, "track.stop")
  /\ Has(ops, "error")
  /\ screenState = "error"
  /\ est[nSessions].loads = 1

CleanupRank(o) ==
  CASE o = "cancelAnimationFrame" -> 1
    [] o \in {"dispose", "landmarker.close"} -> 2
    [] o \in {"track.stop", "video.pause"} -> 3
    [] o = "clearRect" -> 4
    [] OTHER -> 0

\* C3: a run of cleanup performs its steps in the order cancel the frame
\* callback, dispose the estimator, release the camera, clear the canvas.
C3_CleanupOrder ==
  \A i, j \in 1 .. Len(ops) :
    (i < j /\ CleanupRank(ops[i]) > 0 /\ CleanupRank(ops[j]) > 0)
      => CleanupRank(ops[i]) <= CleanupRank(ops[j])

\* A cleanup in which all four steps applied.
C3_Witness ==
  /\ Has(ops, "cancelAnimationFrame")
  /\ Has(ops, "dispose")
  /\ Has(ops, "track.stop")
  /\ Has(ops, "clearRect")

\* C4: once the screen is unmounted and nothing is pending any more (no start
\* sequence suspended, no frame callback scheduled), no camera track is live
\* and no estimator holds an engine.
C4_UnmountReleasesAll ==
  (~mounted /\ pc = "none" /\ scheduled = {}) =>
    (NoCameraLive /\ NoEngineOpen)

\* C5: detectPose() on an estimator that is not ready, or on a frame of zero
\* width or height, returns null, does not invoke the engine and leaves the
\* lifecycle state as it was.
C5_DetectNotReadyIsNull ==
  (act = "detectPose" /\
   (call.pre # "ready" \/ call.width = 0 \/ call.height = 0)) =>
    /\ ret = "null"
    /\ ~Has(ops, "detectForVideo")
    /\ est[Probe].state = call.pre

\* detectPose() was called on a ready estimator with a frame of zero width.
C5_Witness ==
  /\ act = "detectPose"
  /\ call.pre = "ready"
  /\ call.width = 0
  /\ call.height # 0
  /\ ret = "null"

\* C6: an engine exception in a frame callback ends the session: cleanup has
\* run and the screen state is error.
C6_EngineThrowIsFatal ==
  (act = "processFrame" /\ Has(ops, "throw")) =>
    /\ screenState = "error"
    /\ scheduled = {}
    /\ estimatorRef = Null
    /\ NoCameraLive
    /\ NoEngineOpen

\* C7: after the user's stop, and until a start sequence sets running again,
\* no handler calls detectPose() or the renderer or requests a frame callback.
C7_NoTickAfterStop ==
  stopped => \A i \in 1 .. Len(ops) : ops[i] \notin TickOps

\* A frame callback ran within the stopped session, and the stop cancelled
\* the one that was queued.
C7_Witness ==
  /\ stopped
  /\ act = "stop"
  /\ Has(ops, "cancelAnimationFrame")
  /\ rafCount >= 2

\* C8: a frame callback that runs when the estimator, the video element or
\* the canvas is gone makes no call, requests no frame and changes nothing.
C8_BailOutSilently ==
  [][(act' = "processFrame" /\
      (estimatorRef = Null \/ videoRef = Null \/ ~canvasRef)) =>
       /\ ops' = <<>>
       /\ scheduled' \subseteq scheduled
       /\ UNCHANGED << mounted, screenState, errorMessage, videoRef, canvasRef,
                       containerRef, estimatorRef, stopCameraRef,
                       animationFrameRef, pc, nSessions, cam, est, rafCount,
                       ret >>]_vars

\* A frame callback ran after the canvas was detached, with the estimator and
\* the video element still held.
C8_Witness ==
  /\ act = "processFrame"
  /\ ~canvasRef
  /\ estimatorRef # Null
  /\ videoRef # Null
  /\ ops = <<>>
  /\ scheduled = {}

TickComplete(s) ==
  \E a, b, c, d \in 1 .. Len(s) :
    /\ a < b /\ b < c /\ c < d /\ d < Len(s)
    /\ s[a] = "detectPose"
    /\ s[b] = "drawSkeleton"
    /\ s[c] = "fps"
    /\ s[d] = "drawFPS"
    /\ s[Len(s)] = "requestAnimationFrame"
    /\ \A i \in 1 .. Len(s) - 1 : s[i] # "requestAnimationFrame"

\* C9: at most one frame callback is scheduled, and a frame callback requests
\* the next one only as its last call, after detection, drawing and the FPS
\* update.
C9_TicksSequential ==
  /\ Cardinality(scheduled) <= 1
  /\ (act = "processFrame" /\ Has(ops, "requestAnimationFrame"))
       => TickComplete(ops)

\* A frame callback, itself requested by a frame callback, requested the next.
C9_Witness ==
  /\ act = "processFrame"
  /\ Has(ops, "requestAnimationFrame")
  /\ rafCount >= 3
  /\ Cardinality(scheduled) = 1

\* C10: from every reachable state, a second run of cleanup right after a
\* first makes no cancel, dispose, close or camera-stop call and changes
\* nothing; no camera is stopped and no engine closed more than once.
C10_CleanupIdempotent ==
  LET w1 == [cleanup(World) EXCEPT !.ops = <<>>]
      w2 == cleanup(w1)
  IN  /\ \A i \in 1 .. Len(w2.ops) : w2.ops[i] \notin ReleaseOps
      /\ [w2 EXCEPT !.ops = <<>>] = w1
      /\ \A c \in Sessions : w2.cam[c].stopCalls <= 1
      /\ \A e \in Sessions : w2.est[e].closeCalls <= 1

\* Unmount ran cleanup right after Stop had run it: the second run made no
\* release call, and the camera has been stopped once.
C10_Witness ==
  /\ act = "unmount"
  /\ stopped
  /\ nSessions = 1
  /\ cam[1].stopCalls = 1
  /\ est[1].closeCalls = 1
  /\ \A i \in 1 .. Len(ops) : ops[i] \notin ReleaseOps


\* C11: after a handler has run cleanup, every held reference is null: the
\* frame handle, the estimator, the camera's stop function and the video
\* element.
C11_RefsNullAfterCleanup ==
  act \in {"stop", "unmount", "startSession:catch"} =>
    /\ animationFrameRef = Null
    /\ estimatorRef = Null
    /\ stopCameraRef = Null
    /\ videoRef = Null


LoadsInFlight(e) ==
  est[e].awaitingFileset + est[e].awaitingCreate

\* C12: init() called while the estimator is loading or ready starts no load
\* and changes nothing; at most one load is in flight at any time and at most
\* one engine is ever created.
C12_InitIdempotent ==
  [][/\ (act' = "init" /\ est[Probe].state \in {"loading", "ready"}) =>
          (est' = est /\ ops' = <<>> /\ ret' = "resolved")
     /\ LoadsInFlight(Probe)' <= 1
     /\ est'[Probe].opened <= 1]_vars

\* init() was called while a load was in flight.
C12_Witness ==
  /\ act = "init"
  /\ call.pre = "loading"
  /\ LoadsInFlight(Probe) = 1
  /\ est[Probe].loads = 1

\* C13: when the load fails the state is uninitialized, init() has rejected
\* with the initialization error naming the cause, and no engine is held; an
\* init() on an uninitialized estimator starts a fresh load.
C13_InitFailureRetryable ==
  /\ (act \in {"init:catch:fileset", "init:catch:create"}) =>
       /\ est[Probe].state = "uninitialized"
       /\ ~est[Probe].landmarker
       /\ LoadsInFlight(Probe) = 0
       /\ ret = (IF act = "init:catch:fileset" THEN "throw:init:wasm"
                                               ELSE "throw:init:model")
  /\ (act = "init" /\ call.pre = "uninitialized") =>
       /\ est[Probe].state = "loading"
       /\ est[Probe].awaitingFileset = 1
       /\ ret = "pending"

\* The load started by a second init(), after a first load failed, has made
\* the estimator ready.
C13_Witness ==
  /\ act = "init:create"
  /\ est[Probe].loads = 2
  /\ est[Probe].state = "ready"
  /\ est[Probe].landmarker
  /\ ~est[Probe].disposeCalled

\* C14: init() on a disposed estimator throws the disposed error, starts no
\* load and leaves the state disposed.
C14_InitAfterDisposeThrows ==
  [][(act' = "init" /\ est[Probe].state = "disposed") =>
       /\ ret' = "throw:disposed"
       /\ ops' = <<>>
       /\ est' = est]_vars

\* init() was called on a disposed estimator.
C14_Witness ==
  /\ act = "init"
  /\ call.pre = "disposed"
  /\ ret = "throw:disposed"
  /\ est[Probe].state = "disposed"

\* C15: dispose() returns normally and leaves the state disposed from every
\* state; a second dispose() right after it leaves the state disposed and
\* closes nothing; no engine is closed twice.
C15_DisposeIdempotent ==
  LET w1 == dispose(World, Probe)
      w2 == dispose(w1, Probe)
  IN  /\ w1.est[Probe].state = "disposed" /\ w1.ret = "void"
      /\ w2.est[Probe].state = "disposed" /\ w2.ret = "void"
      /\ w2.est[Probe].closeCalls = w1.est[Probe].closeCalls
      /\ w2.ops = w1.ops
      /\ w1.est[Probe].closeCalls <= w1.est[Probe].opened
      /\ act = "dispose" => (est[Probe].state = "disposed" /\ ret = "void")
      /\ est[Probe].closeCalls <= est[Probe].opened

\* dispose() was called on an estimator that an earlier dispose() had closed.
C15_Witness ==
  /\ act = "dispose"
  /\ call.pre = "disposed"
  /\ est[Probe].closeCalls = 1
  /\ est[Probe].state = "disposed"


\* C16: stop() of a camera handle stops the stream's track and detaches the
\* stream from the element; a second stop() right after it completes as well
\* and leaves the track stopped and the stream detached.
C16_StopIdempotent ==
  \A c \in Sessions :
    /\ cam[c].stopCalls >= 1 => (~cam[c].live /\ ~cam[c].srcObject)
    /\ cam[c].phase = "ready" =>
         LET w1 == stop(World, c)
             w2 == stop(w1, c)
         IN  /\ ~w1.cam[c].live /\ ~w1.cam[c].srcObject
             /\ Has(w1.ops, "track.stop")
             /\ ~w2.cam[c].live /\ ~w2.cam[c].srcObject
             /\ w2.cam[c].stopCalls = cam[c].stopCalls + 2

\* stop() has been called a second time on one handle.
C16_Witness ==
  /\ act = "camera.stop"
  /\ \E c \in Sessions :
       /\ cam[c].stopCalls = 2
       /\ ~cam[c].live
       /\ ~cam[c].srcObject

\* C17: startCamera() has returned its handle only if the element's first
\* frame was available, and the handle it returns has nonzero width and
\* height.
C17_HandleAfterFirstFrame ==
  /\ \A c \in Sessions : cam[c].phase = "ready" => cam[c].firstFrame
  /\ \A c \in Sessions :
       (cam[c].phase = "ready" /\ cam[c].stopCalls = 0) =>
         (videoWidth(World, c) # 0 /\ videoHeight(World, c) # 0)
  /\ act = "startCamera:loaded" => (call.width # 0 /\ call.height # 0)
  /\ \A c \in Sessions :
       cam[c].phase \in {"getUserMedia", "loadeddata"} => ~cam[c].firstFrame

\* startCamera() has just returned a handle.
C17_Witness ==
  /\ act = "startCamera:loaded"
  /\ call.pre = "loadeddata"
  /\ call.width = 640
  /\ \E c \in Sessions : cam[c].phase = "ready" /\ cam[c].firstFrame

RefusalCauses ==
  {"NotAllowedError", "NotFoundError", "NotReadableError"}

\* C18: a startCamera() refused for permission, missing device or busy device
\* has failed with the error kind of that cause, so the three causes give
\* three different kinds; a failed startCamera() has created no element and
\* holds no stream.
C18_DistinctCameraErrors ==
  \A c \in Sessions :
    cam[c].phase = "failed" =>
      /\ cam[c].cause \in RefusalCauses =>
           (cam[c].error \in RefusalCauses /\ cam[c].error = cam[c].cause)
      /\ ~cam[c].live
      /\ ~cam[c].srcObject
      /\ ~cam[c].firstFrame
      /\ act = "startCamera:rejected" => ~Has(ops, "createElement(video)")

\* Two startCamera() calls have failed for two different causes.
C18_Witness ==
  /\ act = "startCamera:rejected"
  /\ \E c, d \in Sessions :
       /\ cam[c].phase = "failed" /\ cam[c].cause = "NotAllowedError"
       /\ cam[d].phase = "failed" /\ cam[d].cause = "NotReadableError"
       /\ cam[c].error # cam[d].error


\* C19 as stated: the retry action puts the controller in loading, re-entering
\* the start sequence by itself.
C19_RetryEntersLoading ==
  act = "tryAgain" => (screenState = "loading" /\ pc # "none")

\* C19 as the code has it: the retry action puts the controller in idle with
\* the error message cleared and starts nothing: no probe, no camera request,
\* no estimator; the start sequence begins when Start Camera is pressed next.
C19_RetryEntersIdle ==
  act = "tryAgain" =>
    /\ screenState = "idle"
    /\ errorMessage = ""
    /\ pc = "none"
    /\ ops = <<"idle">>
    /\ ENABLED PressStart \/ nSessions = MaxSessions

\* Try Again was pressed on the error screen.
C19_Witness ==
  /\ act = "tryAgain"
  /\ screenState = "idle"
  /\ nSessions = 1
  /\ cam[1].phase = "failed"

Precedes(s, a, b) ==
  \E i, j \in 1..Len(s) : i < j /\ s[i] = a /\ s[j] = b

\* C20: every step that takes the screen state to running starts in loading
\* and is the end of a start sequence: the sequence's camera was requested
\* after the probe passed and has returned a live handle, the sequence's
\* estimator is ready and held, and the canvas was sized before the state
\* was set.
C20_RunningOnlyFromLoading ==
  [][(screenState # "running" /\ screenState' = "running") =>
       /\ screenState = "loading"
       /\ act' = "startSession:ready"
       /\ pc = "init"
       /\ nSessions' = nSessions
       /\ cam'[nSessions].phase = "ready"
       /\ cam'[nSessions].live
       /\ videoRef' = nSessions
       /\ est'[nSessions].state = "ready"
       /\ est'[nSessions].landmarker
       /\ estimatorRef' = nSessions
       /\ Precedes(ops', "canvas.size", "running")]_vars

\* A start sequence has just put the screen in the running state.
C20_Witness ==
  /\ act = "startSession:ready"
  /\ screenState = "running"
  /\ Has(ops, "canvas.size")
  /\ cam[nSessions].live


StartFailureMessages ==
  { "Camera is not supported in this browser.",
    "NotAllowedError", "NotFoundError", "NotReadableError",
    "Failed to initialize MediaPipe PoseEstimator: wasm",
    "Failed to initialize MediaPipe PoseEstimator: model",
    "An unknown error occurred" }

\* C21: whenever the screen state is error the error message is not empty:
\* it is the message of the failure that ended the start sequence, or the
\* fixed text for a thrown value that is not an Error.
C21_ErrorHasMessage ==
  /\ screenState = "error" =>
       (errorMessage # "" /\ errorMessage \in StartFailureMessages)
  /\ (act = "startSession:catch" /\ mounted) => screenState = "error"

\* A start sequence failed on a thrown value that is not an Error.
C21_Witness ==
  /\ act = "startSession:catch"
  /\ screenState = "error"
  /\ errorMessage = "An unknown error occurred"


NonDecreasing(s) ==
  \A i, j \in 1..Len(s) : i < j => s[i] <= s[j]

\* C22: for each estimator, the timestamps the frame callback has passed to
\* its detectPose(), taken in call order, never decrease.
C22_TimestampsNonDecreasing ==
  \A e \in Sessions : NonDecreasing(est[e].timestamps)

\* One estimator has been given two timestamps, the second later than the
\* first.
C22_Witness ==
  /\ act = "processFrame"
  /\ \E e \in Sessions :
       /\ Len(est[e].timestamps) >= 2
       /\ est[e].timestamps[1] < est[e].timestamps[2]


FirstPose(poses) ==
  IF Len(poses) = 0 THEN <<>> ELSE poses[1]

\* C23: when detectPose() has invoked the engine and the engine returned, the
\* call returns a result exactly when the first world pose and the first
\* normalized pose are both non-empty; a returned result holds both sets and
\* a null return holds none.
C23_AllOrNothing ==
  (act = "detectPose" /\ Has(ops, "detectForVideo") /\ ret # "throw") =>
    /\ ret = "result" <=>
         /\ Len(FirstPose(detected.worldLandmarks)) > 0
         /\ Len(FirstPose(detected.landmarks)) > 0
    /\ ret = "result" =>
         /\ Len(poseResult.worldLandmarks) > 0
         /\ Len(poseResult.normalizedLandmarks) > 0
    /\ ret # "result" => (ret = "null" /\ poseResult = NoResult)

\* The engine returned a world pose and no normalized pose, and detectPose()
\* returned null.
C23_Witness ==
  /\ act = "detectPose"
  /\ Has(ops, "detectForVideo")
  /\ Len(FirstPose(detected.worldLandmarks)) > 0
  /\ Len(FirstPose(detected.landmarks)) = 0
  /\ ret = "null"

LandmarksValid(s) ==
  /\ Len(s) = NumLandmarks
  /\ \A i \in 1..Len(s) : s[i].visibility >= 0 /\ s[i].visibility <= One

\* C24: both landmark sets of a detection result have 33 landmarks and every
\* visibility in them is between 0 and 1.
C24_ResultWellFormed ==
  poseResult # NoResult =>
    /\ LandmarksValid(poseResult.worldLandmarks)
    /\ LandmarksValid(poseResult.normalizedLandmarks)

\* detectPose() returned a result for a pose whose landmarks came without a
\* visibility.
C24_Witness ==
  /\ act = "detectPose"
  /\ ret = "result"
  /\ detected.landmarks[1][1].visibility = Undefined
  /\ poseResult.normalizedLandmarks[1].visibility = 0


\* The indices of the landmarks for which an arc was issued.
PointsDrawn ==
  { canvas.calls[k].of : k \in { j \in 1..Len(canvas.calls) :
                                   canvas.calls[j].cmd = "arc" } }

\* The <<start, end>> pairs for which a line was issued.
EdgesDrawn ==
  { << canvas.calls[k].of, canvas.calls[k + 1].of >> :
      k \in { j \in 1..(Len(canvas.calls) - 1) :
                canvas.calls[j].cmd = "moveTo" } }

Indices ==
  0..(Len(drawArgs.items) - 1)

Drawn ==
  act = "drawSkeleton"

PositionCalls ==
  { k \in 1..Len(canvas.calls) : canvas.calls[k].cmd \in {"arc", "moveTo", "lineTo"} }

C27_ClearsFirst ==
  Drawn =>
    /\ Len(canvas.calls) >= 1
    /\ canvas.calls[1] = Cmd("clearRect", canvas.width, canvas.height, Undefined)
    /\ \A k \in 2..Len(canvas.calls) : canvas.calls[k].cmd # "clearRect"
    /\ (drawArgs.isNull \/ Len(drawArgs.items) = 0) => Len(canvas.calls) = 1

\* drawSkeleton() ran with null.
C27_Witness ==
  /\ Drawn
  /\ drawArgs.isNull
  /\ Len(canvas.calls) = 1
  /\ canvas.calls[1].cmd = "clearRect"

\* C28: in one drawSkeleton() run every moveTo, lineTo and stroke comes before
\* the first arc.
C28_EdgesBeforePoints ==
  Drawn =>
    \A j, k \in 1..Len(canvas.calls) :
      (canvas.calls[j].cmd \in {"moveTo", "lineTo", "stroke"} /\
       canvas.calls[k].cmd = "arc") => j < k

\* A run drew both a connection and a landmark.
C28_Witness ==
  /\ Drawn
  /\ EdgesDrawn # {}
  /\ PointsDrawn # {}

Connections ==
  { SKELETON_CONNECTIONS[k] : k \in 1..Len(SKELETON_CONNECTIONS) }

Passes(i) ==
  /\ i \in Indices
  /\ ~(Visibility(At(drawArgs.items, i)) < drawArgs.threshold)

\* C29: the landmarks drawn are exactly those whose visibility is not below
\* the threshold, and the connections drawn are exactly the table entries
\* whose two landmarks both exist and both pass; with 33 landmarks, two at
\* 0.9 and the rest at 0.1, exactly those two are drawn.
C29_DrawnSetExact ==
  Drawn =>
    /\ PointsDrawn = { i \in Indices : Passes(i) }
    /\ EdgesDrawn = { e \in Connections : Passes(e[1]) /\ Passes(e[2]) }
    /\ \A i \in Indices :
         Cardinality({ k \in 1..Len(canvas.calls) :
                         canvas.calls[k].cmd = "arc" /\ canvas.calls[k].of = i })
           = (IF Passes(i) THEN 2 ELSE 0)

\* Of 33 landmarks only the two shoulders were visible: they were drawn, and
\* so was the one connection between them, and none of the connections to an
\* elbow or a hip.
C29_Witness ==
  /\ Drawn
  /\ Len(drawArgs.items) = NumLandmarks
  /\ drawArgs.threshold = DefaultThreshold
  /\ \A i \in Indices :
       At(drawArgs.items, i).visibility = (IF i \in {11, 12} THEN 90 ELSE 10)
  /\ PointsDrawn = {11, 12}
  /\ EdgesDrawn = { <<11, 12>> }


CamerasLive ==
  { c \in Sessions : cam[c].live }

EnginesOpen ==
  { e \in Sessions : est[e].landmarker }

\* C30: of the camera streams the controller has acquired at most one has
\* live tracks, and of the engines its estimators have created at most one is
\* open; every camera and estimator was created by a start sequence of the
\* controller.
C30_SoleOwner ==
  /\ Cardinality(CamerasLive) <= 1
  /\ Cardinality(EnginesOpen) <= 1
  /\ \A c \in Sessions :
       (c > nSessions) => (cam[c] = NewCamera /\ est[c] = NewEstimator)
  /\ \A c \in CamerasLive \cup EnginesOpen : c = nSessions

\* A restart after a stop holds the second camera and engine, the first ones
\* released.
C30_Witness ==
  /\ nSessions = 2
  /\ cam[2].live
  /\ est[2].landmarker
  /\ cam[1].stopCalls = 1
  /\ est[1].closeCalls = 1


\* C31: signUp and signIn have error null while the service call is in
\* flight; when the service reported failure they have returned false with
\* error set and isLoading false; when it reported success they have returned
\* true with error null and isLoading false.
C31_SignInOutcome ==
  /\ authService.pending \in {"signUp", "signIn"} => authStore.error = "null"
  /\ (act = "auth:resolved" /\ authService.lastOp \in {"signUp", "signIn"}) =>
       /\ ~authStore.isLoading
       /\ authService.result.success =>
            (authService.ret = "true" /\ authStore.error = "null")
       /\ ~authService.result.success =>
            /\ authService.ret = "false"
            /\ authStore.error =
                 IF authService.result.message # "undefined"
                 THEN authService.result.message
                 ELSE IF authService.lastOp = "signUp" THEN "Sign up failed"
                                                       ELSE "Sign in failed"

\* signIn has returned false on a failure that carried no error object.
C31_Witness ==
  /\ act = "auth:resolved"
  /\ authService.lastOp = "signIn"
  /\ ~authService.result.success
  /\ authService.ret = "false"
  /\ authStore.error = "Sign in failed"
  /\ ~authStore.isLoading


\* C39: once signUp, signIn, signOut or resetPassword has settled, whether
\* the service resolved, reported failure or rejected, isLoading is false,
\* and a settled signOut leaves session null.
C39_SettledNotLoading ==
  act \in {"auth:resolved", "auth:rejected"} =>
    /\ ~authStore.isLoading
    /\ authService.lastOp = "signOut" => authStore.session = "null"

\* C40: once the initial getSession() result and every auth state change
\* reported so far have been delivered (and no sign-in, sign-up, sign-out or
\* reset has been asked of the store), the store's session is the service's
\* current auth state and isLoading is false.
C40_SessionIsLatest ==
  ( /\ authService.getSession = "done"
    /\ authService.events = <<>>
    /\ authService.pending = "none"
    /\ authService.lastOp = "none" ) =>
    /\ authStore.session = authService.state
    /\ ~authStore.isLoading


\* Numerator of t - u for fractions t and u: its sign is the sign of the
\* difference.
DeltaNum(t, u) ==
  t.num * u.den - u.num * t.den

\* C32: the frame-rate update with previous value S and delta d ms gives
\* 0.9 S + 0.1 (1000 / d) when d > 0 (33 from S = 30 at 60 frames a second)
\* and leaves S unchanged when d <= 0.
C32_FpsSmoothing ==
  act = "smoothFps" =>
    LET S  == call.pre.fpsRef
        dn == DeltaNum(frameArg, call.pre.lastFrameTimeRef)
        dd == frameArg.den * call.pre.lastFrameTimeRef.den
    IN  /\ dn > 0 =>
             fpsRef.num * (10 * S.den * dn)
               = fpsRef.den * (9 * S.num * dn + 1000 * dd * S.den)
        /\ (dn > 0 /\ S = [num |-> 30, den |-> 1] /\ 3 * dn = 50 * dd) =>
             fpsRef = [num |-> 33, den |-> 1]
        /\ dn <= 0 => fpsRef = S

\* The update has run from S = 30 with a delta of 50/3 ms and gave 33.
C32_Witness ==
  /\ act = "smoothFps"
  /\ call.pre.fpsRef = [num |-> 30, den |-> 1]
  /\ 3 * DeltaNum(frameArg, call.pre.lastFrameTimeRef)
       = 50 * frameArg.den * call.pre.lastFrameTimeRef.den
  /\ fpsRef = [num |-> 33, den |-> 1]


\* C33: a start sequence whose capability probe says the camera is not
\* supported ends inside the same handler: the state was set to loading and
\* then to error, the message names the missing camera support, the camera
\* was never requested and the sequence's estimator was never touched.
C33_UnsupportedFailsFast ==
  (act = "startSession" /\ pc = "none") =>
    /\ Precedes(ops, "loading", "error")
    /\ screenState = "error"
    /\ errorMessage = "Camera is not supported in this browser."
    /\ ~Has(ops, "getUserMedia")
    /\ ~Has(ops, "init")
    /\ cam[nSessions] = NewCamera
    /\ est[nSessions] = NewEstimator
    /\ estimatorRef = Null /\ stopCameraRef = Null

\* A second start sequence has failed on the probe.
C33_Witness ==
  /\ act = "startSession"
  /\ pc = "none"
  /\ nSessions = 2
  /\ screenState = "error"
  /\ cam[2].phase = "none"


\* C34: under any interleaving of init(), detectPose() and dispose() the
\* estimator holds an open engine exactly when its state is ready.
C34_EngineIffReady ==
  est[Probe].landmarker <=> est[Probe].state = "ready"


\* dispose() was called while the model was loading and the load then
\* completed: the engine is held and the state is ready.
C34_Witness ==
  /\ est[Probe].disposeCalled
  /\ est[Probe].landmarker
  /\ est[Probe].state = "ready"


C36_LoopAliveWhileRunning ==
  screenState = "running" => Cardinality(scheduled) = 1


\* C37: while the screen state is running the controller holds a camera
\* whose tracks are live and an estimator whose state is ready; while it is
\* idle or error with no start sequence in progress, no camera it acquired is
\* live and no estimator it created holds an open engine.
C37_ResourcesMatchState ==
  mounted =>
    /\ screenState = "running" =>
         /\ stopCameraRef # Null
         /\ cam[stopCameraRef].live
         /\ estimatorRef # Null
         /\ est[estimatorRef].state = "ready"
    /\ (screenState \in {"idle", "error"} /\ pc = "none") =>
         \A s \in Sessions : ~cam[s].live /\ ~est[s].landmarker


\* A second session is running on its own camera and estimator after the
\* first was stopped and released.
C37_Witness ==
  /\ mounted
  /\ screenState = "running"
  /\ nSessions = 2
  /\ stopCameraRef = 2 /\ cam[2].live
  /\ estimatorRef = 2 /\ est[2].state = "ready"
  /\ ~cam[1].live /\ ~est[1].landmarker /\ est[1].opened = 1


\* C38: the controller calls detectPose() only on the estimator it holds,
\* which is not disposed when the call is made; it calls init() only on the
\* start sequence's own estimator, which is uninitialized then, and init()
\* never fails on a disposed estimator; an estimator that dispose() was
\* called on is never the one the controller holds.
C38_NoUseAfterDispose ==
  [][/\ Has(ops', "detectPose") =>
          (estimatorRef # Null /\ est[estimatorRef].state # "disposed")
     /\ act' = "startSession:camera" =>
          (est[nSessions].state = "uninitialized" /\ estimatorRef # nSessions)
     /\ ret' # "throw:disposed"
     /\ estimatorRef' # Null => ~est'[estimatorRef'].disposeCalled]_vars

\* The second session's estimator has just been given a frame; the first
\* session's estimator was disposed when that session was stopped.
C38_Witness ==
  /\ act = "processFrame"
  /\ Has(ops, "detectPose")
  /\ estimatorRef = 2
  /\ est[2].timestamps # <<>>
  /\ est[1].state = "disposed"

====
